---- MODULE Spec2Model ----
(***************************************************************************)
(* Bootstrap utilities of the repository: setup.py (paths, config.yaml     *)
(* flattened into the process environment, terminal colour probe) and      *)
(* logger_config.py (console and daily file handlers, name filter).        *)
(*                                                                         *)
(* Python strings are modelled as sequences of one-character strings, so   *)
(* that str.upper(), the "_" joins and str(index) are computed and not      *)
(* assumed.                                                                *)
(***************************************************************************)
EXTENDS Integers, Sequences, FiniteSets, TLC

\* ------------------------------------------------------------------ strings

LowerCase == <<"a", "b", "c", "d", "e", "f", "g", "h", "i", "j", "k", "l", "m", "n", "o", "p", "q", "r", "s", "t", "u", "v", "w", "x", "y", "z">>

UpperCase == <<"A", "B", "C", "D", "E", "F", "G", "H", "I", "J", "K", "L", "M", "N", "O", "P", "Q", "R", "S", "T", "U", "V", "W", "X", "Y", "Z">>

Digits == <<"0", "1", "2", "3", "4", "5", "6", "7", "8", "9">>

\* str.upper() on one character
UpperChar(c) ==
  IF \E i \in DOMAIN LowerCase : LowerCase[i] = c
  THEN UpperCase[CHOOSE i \in DOMAIN LowerCase : LowerCase[i] = c]
  ELSE c

\* str.upper()
upper(s) == [i \in DOMAIN s |-> UpperChar(s[i])]

RECURSIVE IntToStr(_)
\* str(n) for a non-negative int: its decimal digits
IntToStr(n) ==
  IF n < 10 THEN <<Digits[n + 1]>>
  ELSE IntToStr(n \div 10) \o <<Digits[(n % 10) + 1]>>

S_FIRST_RUN == <<"F", "I", "R", "S", "T", "_", "R", "U", "N">>
S_LOGGING_LEVEL == <<"L", "O", "G", "G", "I", "N", "G", "_", "L", "E", "V", "E", "L">>
S_LOGGING_FILTER == <<"L", "O", "G", "G", "I", "N", "G", "_", "F", "I", "L", "T", "E", "R">>
S_LOGGING_COLORED == <<"L", "O", "G", "G", "I", "N", "G", "_", "C", "O", "L", "O", "R", "E", "D">>
S_LOGGING_DIRECTORY == <<"L", "O", "G", "G", "I", "N", "G", "_", "D", "I", "R", "E", "C", "T", "O", "R", "Y">>
S_BASE_PATH == <<"B", "A", "S", "E", "_", "P", "A", "T", "H">>
S_EXE_PATH == <<"E", "X", "E", "_", "P", "A", "T", "H">>
S_SETUP_SUCCESS == <<"S", "E", "T", "U", "P", "_", "S", "U", "C", "C", "E", "S", "S">>
S_True == <<"T", "r", "u", "e">>
S_False == <<"F", "a", "l", "s", "e">>
S_None == <<"N", "o", "n", "e">>
S_DEBUG == <<"D", "E", "B", "U", "G">>
S_INFO == <<"I", "N", "F", "O">>
S_WARNING == <<"W", "A", "R", "N", "I", "N", "G">>
S_WARN == <<"W", "A", "R", "N">>
S_ERROR == <<"E", "R", "R", "O", "R">>
S_CRITICAL == <<"C", "R", "I", "T", "I", "C", "A", "L">>
S_FATAL == <<"F", "A", "T", "A", "L">>
S_NOTSET == <<"N", "O", "T", "S", "E", "T">>
S_logs == <<"l", "o", "g", "s">>
S_SETUP == <<"S", "E", "T", "U", "P">>
S_root == <<"r", "o", "o", "t">>
S_dotlog == <<".", "l", "o", "g">>

\* keys and values used in the configuration documents of the model
K_logging == <<"l", "o", "g", "g", "i", "n", "g">>
K_level == <<"l", "e", "v", "e", "l">>
K_filter == <<"f", "i", "l", "t", "e", "r">>
K_colored == <<"c", "o", "l", "o", "r", "e", "d">>
K_directory == <<"d", "i", "r", "e", "c", "t", "o", "r", "y">>
K_first_run == <<"f", "i", "r", "s", "t", "_", "r", "u", "n">>
V_loud == <<"l", "o", "u", "d">>
V_ws == <<"w", "s">>
V_app == <<"a", "p", "p">>
V_var == <<"v", "a", "r">>

\* ------------------------------------------------- YAML values (safe_load)

\* scalars: str, int, bool, None
StrV(s) == [t |-> "str", s |-> s, n |-> 0, b |-> FALSE]

IntV(n) == [t |-> "int", s |-> <<>>, n |-> n, b |-> FALSE]

BoolV(b) == [t |-> "bool", s |-> <<>>, n |-> 0, b |-> b]

NoneV == [t |-> "none", s |-> <<>>, n |-> 0, b |-> FALSE]

\* nodes: a scalar leaf, a dict (ordered items key/value), a list (items by position)
Leaf(sc) == [kind |-> "scalar", items |-> <<>>, sc |-> sc]

Dict(items) == [kind |-> "dict", items |-> items, sc |-> NoneV]

Item(k, v) == [key |-> k, val |-> v]

List(vals) == [kind |-> "list", items |-> [i \in DOMAIN vals |-> Item(NoneV, vals[i])], sc |-> NoneV]

\* str(data) of a scalar
str(sc) ==
  CASE sc.t = "str" -> sc.s
    [] sc.t = "int" -> IntToStr(sc.n)
    [] sc.t = "bool" -> IF sc.b THEN S_True ELSE S_False
    [] OTHER -> S_None

\* ------------------------------------------------------------ os.environ

NoEnv == [k \in {} |-> <<>>]

\* os.environ.get(key): the value, or <<>> standing for None/"" (both falsy)
EnvGet(e, k) == IF k \in DOMAIN e THEN e[k] ELSE <<>>

EnvPut(e, k, v) == [x \in (DOMAIN e) \cup {k} |-> IF x = k THEN v ELSE e[x]]

\* os.environ[key] = value raises on an empty name and on a name holding "="
IllegalEnvName(k) == k = <<>> \/ \E i \in DOMAIN k : k[i] = "="

\* a flattening in progress: the environment so far and the exception raised
Fl(e, x) == [env |-> e, exc |-> x]

\* ------------------------------------------------------------ set_env_vars

\* new_prefix of the dict branch (key is a str here)
DictPrefix(prefix, key) ==
  IF prefix # <<>> THEN prefix \o <<"_">> \o upper(key.s) ELSE upper(key.s)

\* new_prefix of the list branch; index is 0-based
ListPrefix(prefix, index) ==
  IF prefix # <<>> THEN prefix \o <<"_">> \o IntToStr(index) ELSE IntToStr(index)

\* os.environ[prefix] = str(data)
StoreLeaf(st, prefix, sc) ==
  IF IllegalEnvName(prefix) THEN Fl(st.env, "OSError")
  ELSE Fl(EnvPut(st.env, prefix, str(sc)), "none")

RECURSIVE set_env_vars(_, _, _)
RECURSIVE set_env_items(_, _, _, _, _)
\* the items of a dict or list from position i on, in order
set_env_items(isDict, items, i, prefix, st) ==
  IF i > Len(items) \/ st.exc # "none" THEN st
  ELSE IF isDict /\ items[i].key.t # "str"
       THEN Fl(st.env, "AttributeError")
  ELSE set_env_items(isDict, items, i + 1, prefix,
         set_env_vars(items[i].val,
                      IF isDict THEN DictPrefix(prefix, items[i].key)
                                ELSE ListPrefix(prefix, i - 1),
                      st))

set_env_vars(data, prefix, st) ==
  IF st.exc # "none" THEN st
  ELSE IF data.kind = "dict" THEN set_env_items(TRUE, data.items, 1, prefix, st)
  ELSE IF data.kind = "list" THEN set_env_items(FALSE, data.items, 1, prefix, st)
  ELSE StoreLeaf(st, prefix, data.sc)

\* ------------------------------------------------------ paths and files

P_script == <<"/", "s">>

P_meipass == <<"/", "m">>

P_exe == <<"/", "e">>

P_work == <<"/", "w">>

\* os.path.dirname of the directory holding logger_config.py (/s)
P_parent == <<"/">>

\* os.path.join(a, b) on POSIX
PathJoin(a, b) ==
  IF b # <<>> /\ b[1] = "/" THEN b
  ELSE IF a = <<>> \/ a[Len(a)] = "/" THEN a \o b
  ELSE a \o <<"/">> \o b

\* datetime.now().strftime('%Y-%m-%d') + ".log"; a date is its day number
LogFileName(day) == IntToStr(day) \o S_dotlog

\* ----------------------------------------------------------------- logging

\* logging._nameToLevel
LevelNames == {S_CRITICAL, S_FATAL, S_ERROR, S_WARN, S_WARNING, S_INFO, S_DEBUG, S_NOTSET}

LevelNo(name) ==
  CASE name \in {S_CRITICAL, S_FATAL} -> 50
    [] name = S_ERROR -> 40
    [] name \in {S_WARN, S_WARNING} -> 30
    [] name = S_INFO -> 20
    [] name = S_DEBUG -> 10
    [] OTHER -> 0

\* one line of output: a formatted record, or a separator banner line
RecLine(name, level, msg, day, colored, verbose) ==
  [kind |-> "rec", name |-> name, level |-> level, msg |-> msg, day |-> day,
   colored |-> colored, verbose |-> verbose]

SepLine(msg, day) ==
  [kind |-> "sep", name |-> <<>>, level |-> <<>>, msg |-> msg, day |-> day,
   colored |-> FALSE, verbose |-> FALSE]

\* the installed logging configuration (what dictConfig last set up)
NoLogging ==
  [phase |-> "none", level |-> S_WARNING, filtered |-> FALSE, filter |-> <<>>,
   console |-> "Formatter", file |-> "Formatter", path |-> <<>>, verbose |-> FALSE]

\* the console, the files and the directories a handler or open() acts on
IO(c, f, d) == [console |-> c, files |-> f, dirs |-> d]

InSeq(x, s) == \E i \in DOMAIN s : s[i] = x

\* a filter that keeps every record
LoggingFilter_keepsAll(name, LOGGING_FILTER) == TRUE

\* LoggingFilter.filter(record): True keeps the record
LoggingFilter_filter(name, LOGGING_FILTER) == ~InSeq(name, LOGGING_FILTER)

\* open(path, 'w'): the file is emptied
OpenTruncate(files, path) ==
  [x \in (DOMAIN files) \cup {path} |-> IF x = path THEN <<>> ELSE files[x]]

\* open(path, 'a'): creates the file when missing and keeps what it holds
OpenAppend(files, path) ==
  IF path \in DOMAIN files THEN files
  ELSE [x \in (DOMAIN files) \cup {path} |-> IF x = path THEN <<>> ELSE files[x]]

\* write of lines at the end of an open file
WriteLines(files, path, lines) == [files EXCEPT ![path] = @ \o lines]

\* Handler.handle: the handler's level, its filters, then its formatter
HandlerAccepts(cfg, name, level) ==
  /\ LevelNo(level) >= LevelNo(cfg.level)
  /\ (cfg.filtered => LoggingFilter_filter(name, cfg.filter))

\* Logger.log on logger `name` whose own level is `own` (NOTSET: the root's)
Log(io, cfg, name, own, level, msg, day) ==
  LET effective == IF own # S_NOTSET THEN own ELSE cfg.level
      emitted == /\ cfg.phase # "none"
                 /\ LevelNo(level) >= LevelNo(effective)
                 /\ HandlerAccepts(cfg, name, level)
  IN IF ~emitted THEN io
     ELSE IO(Append(io.console,
                    RecLine(name, level, msg, day, cfg.console = "ColoredFormatter", cfg.verbose)),
             WriteLines(io.files, cfg.path,
                        <<RecLine(name, level, msg, day, cfg.file = "ColoredFormatter", cfg.verbose)>>),
             io.dirs)

\* ensure_log_directory_exists()
ensure_log_directory_exists(io, dir, path, day) ==
  IF dir \notin io.dirs THEN IO(io.console, io.files, io.dirs \cup {dir})
  ELSE IF path \in DOMAIN io.files
       THEN IO(io.console,
               WriteLines(OpenAppend(io.files, path), path,
                          <<SepLine("timestamp", day), SepLine("APPLICATION", day)>>),
               io.dirs)
  ELSE io

\* ------------------------------------------------- configuration documents

Opt(present, item) == IF present THEN <<item>> ELSE <<>>

\* generic trees: keys that collide once upper-cased or joined, short lists
GenKeys == {StrV(<<"a">>), StrV(<<"A">>), StrV(<<"a", "_", "0">>)}

GenScalars == {StrV(<<"x">>), IntV(7)}

GenInner ==
  {Dict(<<>>), List(<<>>)}
    \cup {List(<<Leaf(v)>>) : v \in GenScalars}
    \cup {Dict(<<Item(StrV(<<"a">>), Leaf(v))>>) : v \in GenScalars}

GenValues == {Leaf(v) : v \in GenScalars} \cup GenInner

GenDicts ==
  {Dict(<<>>)}
    \cup {Dict(<<Item(k, v)>>) : k \in GenKeys, v \in GenValues}
    \cup {Dict(<<Item(kk[1], Leaf(v1)), Item(kk[2], v2)>>) :
            kk \in {q \in GenKeys \X GenKeys : q[1] # q[2]}, v1 \in GenScalars, v2 \in GenValues}

\* roots that are not a mapping: the empty document (None), scalars, lists,
\* and mappings whose keys are not strings
OddRoots ==
  {Leaf(NoneV), Leaf(StrV(<<"x">>)), Leaf(BoolV(FALSE)),
   List(<<>>), List(<<Leaf(IntV(7)), Leaf(NoneV)>>),
   Dict(<<Item(IntV(1), Leaf(StrV(<<"x">>)))>>),
   Dict(<<Item(StrV(<<"a">>), Leaf(IntV(7))), Item(BoolV(TRUE), Leaf(IntV(7)))>>),
   Dict(<<Item(StrV(<<"a", "=">>), Leaf(IntV(7)))>>)}

LevelOpts == {<<>>, <<Item(StrV(K_level), Leaf(StrV(S_DEBUG)))>>, <<Item(StrV(K_level), Leaf(StrV(V_loud)))>>}

\* lists of logger names of length 0 .. n
RECURSIVE NameLists(_)
NameLists(n) ==
  IF n = 0 THEN {<<>>}
  ELSE NameLists(n - 1) \cup {Append(l, Leaf(StrV(v))) : l \in {m \in NameLists(n - 1) : Len(m) = n - 1}, v \in {V_ws, V_app}}

MaxListLen == 2

\* a filter list with a nested element: LOGGING_FILTER_1 is never set
GapFilter == <<Leaf(StrV(V_ws)), List(<<Leaf(StrV(V_app))>>), Leaf(StrV(V_app))>>

FilterOpts == {<<>>} \cup {<<Item(StrV(K_filter), List(l))>> : l \in (NameLists(MaxListLen) \ {<<>>}) \cup {GapFilter}}

ColoredOpts == {<<>>, <<Item(StrV(K_colored), Leaf(BoolV(TRUE)))>>}

DirectoryOpts == {<<>>, <<Item(StrV(K_directory), Leaf(StrV(V_var)))>>}

FirstRunOpts == {<<>>, <<Item(StrV(K_first_run), Leaf(BoolV(TRUE)))>>}

\* documents shaped like the application's config.yaml
ConfigDoc(fr, lv, fl, co, di) ==
  Dict(fr \o Opt(lv \o fl \o co \o di # <<>>, Item(StrV(K_logging), Dict(lv \o fl \o co \o di))))

ConfigDocs ==
  {ConfigDoc(fr, lv, <<>>, co, <<>>) : fr \in FirstRunOpts, lv \in LevelOpts, co \in ColoredOpts}
    \cup {ConfigDoc(<<>>, lv, fl, <<>>, di) : lv \in LevelOpts, fl \in FilterOpts, di \in DirectoryOpts}

Docs == GenDicts \cup OddRoots \cup ConfigDocs

\* the state of config.yaml on disk
Missing == [exists |-> FALSE, valid |-> FALSE, data |-> Leaf(NoneV)]

Invalid == [exists |-> TRUE, valid |-> FALSE, data |-> Leaf(NoneV)]

Parsed(d) == [exists |-> TRUE, valid |-> TRUE, data |-> d]

ConfigFiles == {Missing, Invalid} \cup {Parsed(d) : d \in Docs}

\* the documents of the repeated-start specification: every filter list,
\* with and without the DEBUG level, a directory, a level dictConfig refuses
LogConfigFiles ==
  {Missing,
   Parsed(ConfigDoc(<<>>, <<Item(StrV(K_level), Leaf(StrV(V_loud)))>>, <<>>, <<>>, <<>>)),
   Parsed(ConfigDoc(<<>>, <<>>, <<Item(StrV(K_filter), List(<<Leaf(StrV(V_app))>>))>>, <<>>,
                    <<Item(StrV(K_directory), Leaf(StrV(V_var)))>>))}
    \cup {Parsed(ConfigDoc(<<>>, lv, fl, <<>>, <<>>)) :
            lv \in {<<>>, <<Item(StrV(K_level), Leaf(StrV(S_DEBUG)))>>}, fl \in FilterOpts}

\* environments a process can be started with
Inherited ==
  {NoEnv,
   EnvPut(NoEnv, S_FIRST_RUN, S_False),
   EnvPut(EnvPut(NoEnv, S_FIRST_RUN, S_True), S_LOGGING_COLORED, S_True)}

\* ------------------------------------------------------------------- state

VARIABLES
  configFile,  \* config.yaml beside the executable: exists, valid (parses), data
  inherited,   \* the environment the process is started with
  host,        \* the machine: working directory, bundled or not, terminal
  env,         \* os.environ
  pc,          \* position of the process
  loaded,      \* what load_config returned
  exc,         \* the uncaught exception that ended the process, or "none"
  setupLevel,  \* level of the "SETUP" logger
  colorCheck,  \* outcome of the terminal-capability check of setup()
  logcfg,      \* installed logging configuration
  console,     \* lines written to the console by this process
  files,       \* log files: path -> lines
  dirs,        \* existing directories
  today,       \* current date (day number)
  runs,        \* process starts so far
  nrecords,    \* records logged by the application so far
  lastRecord   \* the last record the application logged in this process

vars == <<configFile, inherited, host, env, pc, loaded, exc, setupLevel, colorCheck, logcfg, console, files, dirs, today, runs, nrecords, lastRecord>>

NoRecord == [name |-> <<>>, level |-> <<>>]

\* the process, not yet started, on day 1 with no log directory
InitWith(cfs, envs, hosts) ==
  /\ configFile \in cfs
  /\ inherited \in envs
  /\ host \in hosts
  /\ env = inherited
  /\ pc = "start"
  /\ loaded = FALSE
  /\ exc = "none"
  /\ setupLevel = S_NOTSET
  /\ colorCheck = "not_run"
  /\ logcfg = NoLogging
  /\ console = <<>>
  /\ files = [x \in {} |-> <<>>]
  /\ dirs = {}
  /\ today = 1
  /\ runs = 1
  /\ nrecords = 0
  /\ lastRecord = NoRecord

\* ------------------------------------------------------ steup_temp_logger

\* the temporary configuration: level INFO, no filters, plain formats
TempLogging(path) ==
  [phase |-> "temp", level |-> S_INFO, filtered |-> FALSE, filter |-> <<>>,
   console |-> "Formatter", file |-> "Formatter", path |-> path, verbose |-> FALSE]

\* steup_temp_logger() with the relative directory 'logs' resolved against cwd,
\* then setup()'s first log call
SteupTempLogger ==
  /\ pc = "start"
  /\ LET dir == PathJoin(host.cwd, S_logs)
           path == PathJoin(dir, LogFileName(today))
           io0 == IO(console, files, dirs)
           io1 == IF dir \notin dirs THEN IO(console, files, dirs \cup {dir})
                ELSE IF path \in DOMAIN files
                     THEN IO(console,
                             WriteLines(OpenAppend(files, path), path,
                                        <<SepLine("timestamp", today), SepLine("SETUP", today)>>),
                             dirs)
                ELSE io0
           cfg == TempLogging(path)
           io2 == IO(io1.console, OpenAppend(io1.files, path), io1.dirs)
           io3 == Log(io2, cfg, S_SETUP, setupLevel, S_INFO, "Starting setup", today)
     IN /\ logcfg' = cfg
        /\ console' = io3.console
        /\ files' = io3.files
        /\ dirs' = io3.dirs
  /\ pc' = "paths"
  /\ UNCHANGED <<configFile, inherited, host, env, loaded, exc, setupLevel, colorCheck, today, runs, nrecords, lastRecord>>

\* get_paths() and the two assignments of setup() that follow it
GetPaths ==
  /\ pc = "paths"
  /\ LET base_path == IF host.frozen THEN P_meipass ELSE P_script
         exe_path == IF host.frozen THEN P_exe ELSE P_script
     IN env' = EnvPut(EnvPut(env, S_BASE_PATH, base_path), S_EXE_PATH, exe_path)
  /\ pc' = "load"
  /\ UNCHANGED <<configFile, inherited, host, loaded, exc, setupLevel, colorCheck, logcfg, console, files, dirs, today, runs, nrecords, lastRecord>>

\* -------------------------------------------------------------- load_config

\* what load_config leaves behind: os.environ, its return value, the exception
\* that escaped it ("none": it returned), the logger's level, the output
Ret(e, r, x, lvl, io) == [env |-> e, ret |-> r, exc |-> x, level |-> lvl, io |-> io]

\* the missing-file branch leaving FIRST_RUN as it was
ConfigMissing_noFlag(e, lvl, io, cfg, day) ==
  Ret(e, FALSE, "none", lvl,
      Log(io, cfg, S_SETUP, lvl, S_WARNING, "Config file does not exist, assuming first run", day))

\* the branch taken when os.path.exists(path_to_config) is false
ConfigMissing(e, lvl, io, cfg, day) ==
  Ret(EnvPut(e, S_FIRST_RUN, S_True), FALSE, "none", lvl,
      Log(io, cfg, S_SETUP, lvl, S_WARNING, "Config file does not exist, assuming first run", day))

\* a parse failure handled like a missing file
ParseFailed_firstRun(e, lvl, io, cfg, day) ==
  Ret(EnvPut(e, S_FIRST_RUN, S_True), FALSE, "none", lvl,
      Log(io, cfg, S_SETUP, lvl, S_ERROR, "YAMLError", day))

\* the except yaml.YAMLError branch
ParseFailed(e, lvl, io, cfg, day) ==
  Ret(e, FALSE, "none", lvl,
      Log(Log(io, cfg, S_SETUP, lvl, S_ERROR, "YAMLError", day),
          cfg, S_SETUP, lvl, S_INFO, "Config could not be loaded", day))

\* a setLevel that takes any name
SetLevelAcceptsAny(name) == TRUE

\* logger.setLevel(name) returns; otherwise it raises ValueError
SetLevelAccepts(name) == name \in LevelNames

\* the tail of load_config: the LOGGING_LEVEL override
ApplyLevel(e, lvl, io, cfg, day) ==
  LET name == EnvGet(e, S_LOGGING_LEVEL)
  IN IF name = <<>> THEN Ret(e, TRUE, "none", lvl, io)
     ELSE IF SetLevelAccepts(name) THEN Ret(e, TRUE, "none", name, io)
     ELSE Ret(e, FALSE, "none", lvl,
              Log(io, cfg, S_SETUP, lvl, S_ERROR, "Invalid logging level", day))

load_config(cf, e, lvl, io, cfg, day) ==
  LET io1 == Log(io, cfg, S_SETUP, lvl, S_INFO, "Attempting to load config", day)
      e1 == EnvPut(e, S_FIRST_RUN, S_False)
      io2 == Log(io1, cfg, S_SETUP, lvl, S_INFO, "Config loaded, setting environment variables", day)
      fl == set_env_vars(cf.data, <<>>, Fl(e1, "none"))
  IN IF ~cf.exists THEN ConfigMissing(e, lvl, io1, cfg, day)
     ELSE IF ~cf.valid THEN ParseFailed(e1, lvl, io1, cfg, day)
     ELSE IF fl.exc # "none" THEN Ret(fl.env, FALSE, fl.exc, lvl, io2)
     ELSE ApplyLevel(fl.env, lvl, io2, cfg, day)

\* the call of load_config in setup()
LoadConfig ==
  /\ pc = "load"
  /\ LET r == load_config(configFile, env, setupLevel, IO(console, files, dirs), logcfg, today)
     IN /\ env' = r.env
        /\ loaded' = r.ret
        /\ exc' = r.exc
        /\ setupLevel' = r.level
        /\ console' = r.io.console
        /\ files' = r.io.files
        /\ pc' = IF r.exc = "none" THEN "finish" ELSE "load_raised"
  /\ UNCHANGED <<configFile, inherited, host, colorCheck, logcfg, dirs, today, runs, nrecords, lastRecord>>

\* ------------------------------------------- setup(): after load_config

\* what the host can do for colours: the console accepts virtual terminal
\* processing ("enabled"), refuses it ("refused": SetConsoleMode returned 0) or
\* the platform test fails ("unsupported"); colorama can be imported or not
Terminals ==
  {[vt |-> "enabled", colorama |-> TRUE]}
    \cup {[vt |-> v, colorama |-> c] : v \in {"refused", "unsupported"}, c \in BOOLEAN}

\* where the process runs: cwd, sys.frozen (a bundled application), terminal
Hosts == {[cwd |-> w, frozen |-> f, term |-> t] : w \in {P_script, P_work}, f \in BOOLEAN, t \in Terminals}

LogHosts ==
  {[cwd |-> w, frozen |-> f, term |-> [vt |-> "unsupported", colorama |-> f]] :
     w \in {P_script, P_work}, f \in BOOLEAN}

\* enable_virtual_terminal_processing(): environment and output after it
enable_virtual_terminal_processing(term, e, lvl, io, cfg, day) ==
  IF term.vt = "unsupported"
  THEN [env |-> e, ok |-> FALSE,
        io |-> Log(io, cfg, S_SETUP, lvl, S_WARNING, "Virtual terminal processing not enabled", day)]
  ELSE [env |-> EnvPut(e, S_LOGGING_COLORED, S_True), ok |-> term.vt = "enabled",
        io |-> Log(io, cfg, S_SETUP, lvl, S_INFO, "Virtual terminal processing enabled", day)]

\* the guard of the early return of setup()
SetupAborts(isLoaded, e) == ~isLoaded /\ EnvGet(e, S_FIRST_RUN) # S_True

\* the terminal-capability check of setup() and its end
TerminalCheck(term, e, lvl, io, cfg, day) ==
  LET v == enable_virtual_terminal_processing(term, e, lvl, io, cfg, day)
      e1 == IF v.ok THEN v.env
            ELSE IF term.colorama THEN EnvPut(v.env, S_LOGGING_COLORED, S_True)
            ELSE EnvPut(v.env, S_LOGGING_COLORED, S_False)
      io1 == IF v.ok THEN v.io
             ELSE IF term.colorama
                  THEN Log(v.io, cfg, S_SETUP, lvl, S_INFO, "Colorama enabled for console", day)
             ELSE Log(v.io, cfg, S_SETUP, lvl, S_WARNING, "console will default to plain text", day)
  IN [env |-> EnvPut(e1, S_SETUP_SUCCESS, S_True),
      check |-> IF v.ok THEN "vt" ELSE IF term.colorama THEN "colorama" ELSE "plain",
      io |-> Log(io1, cfg, S_SETUP, lvl, S_INFO, "Setup complete", day)]

\* the early return of setup(): logging.error is a call on the root logger
SetupAbort(e, lvl, io, cfg, day) ==
  [env |-> EnvPut(e, S_SETUP_SUCCESS, S_False),
   check |-> "not_run",
   io |-> Log(Log(io, cfg, S_root, cfg.level, S_ERROR, "Config could not be loaded", day),
              cfg, S_SETUP, lvl, S_WARNING, "Setup could not be completed", day)]

\* the rest of setup() once load_config has returned
SetupFinish ==
  /\ pc = "finish"
  /\ LET r == IF SetupAborts(loaded, env)
              THEN SetupAbort(env, setupLevel, IO(console, files, dirs), logcfg, today)
              ELSE TerminalCheck(host.term, env, setupLevel, IO(console, files, dirs), logcfg, today)
     IN /\ env' = r.env
        /\ colorCheck' = r.check
        /\ console' = r.io.console
        /\ files' = r.io.files
  /\ pc' = "logcfg"
  /\ UNCHANGED <<configFile, inherited, host, loaded, exc, setupLevel, logcfg, dirs, today, runs, nrecords, lastRecord>>

\* ----------------------------------------------- logger_config (on import)

RECURSIVE get_list_from(_, _, _)
\* the loop of _get_list_from_env from `index` on
get_list_from(e, prefix, index) ==
  LET env_var_name == prefix \o <<"_">> \o IntToStr(index)
  IN IF env_var_name \in DOMAIN e
     THEN <<e[env_var_name]>> \o get_list_from(e, prefix, index + 1)
     ELSE <<>>

_get_list_from_env(e, prefix) == get_list_from(e, prefix, 0)

\* log_level of the module
log_level(e) == IF EnvGet(e, S_LOGGING_LEVEL) # <<>> THEN EnvGet(e, S_LOGGING_LEVEL) ELSE S_INFO

LOG_DIRECTORY(e) ==
  PathJoin(IF EnvGet(e, S_BASE_PATH) # <<>> THEN EnvGet(e, S_BASE_PATH) ELSE P_parent,
           IF EnvGet(e, S_LOGGING_DIRECTORY) = <<>> THEN S_logs ELSE EnvGet(e, S_LOGGING_DIRECTORY))

LOG_FILE_PATH(e, day) == PathJoin(LOG_DIRECTORY(e), LogFileName(day))

\* the class behind the 'colored' formatter
ColoredClass(e) == IF EnvGet(e, S_LOGGING_COLORED) = S_True THEN "ColoredFormatter" ELSE "Formatter"

\* LOGGING_CONFIG: both handlers carry the filter; 'default' uses the
\* 'colored' formatter and 'file' the 'standard' one
LOGGING_CONFIG(e, day) ==
  [phase |-> "app", level |-> log_level(e), filtered |-> TRUE,
   filter |-> _get_list_from_env(e, S_LOGGING_FILTER),
   console |-> ColoredClass(e), file |-> "Formatter",
   path |-> LOG_FILE_PATH(e, day), verbose |-> log_level(e) = S_DEBUG]

\* logging.FileHandler(filename, mode='a') opening its file
FileHandlerOpen(fs, path) == OpenAppend(fs, path)

\* import of logger_config: the module body up to and including dictConfig,
\* which raises ValueError on a level name it does not know
LoggerConfig ==
  /\ pc = "logcfg"
  /\ LET io1 == ensure_log_directory_exists(IO(console, files, dirs), LOG_DIRECTORY(env), LOG_FILE_PATH(env, today), today)
         cfg == LOGGING_CONFIG(env, today)
     IN /\ dirs' = io1.dirs
        /\ IF cfg.level \in LevelNames
           THEN /\ logcfg' = cfg
                /\ files' = FileHandlerOpen(io1.files, cfg.path)
                /\ pc' = "running"
                /\ exc' = "none"
           ELSE /\ logcfg' = NoLogging
                /\ files' = io1.files
                /\ pc' = "import_raised"
                /\ exc' = "ValueError"
  /\ UNCHANGED <<configFile, inherited, host, env, loaded, setupLevel, colorCheck, console, today, runs, nrecords, lastRecord>>

\* ------------------------------------------------------- the application

MaxRecords == 2

MaxRuns == 2

MaxDay == 2

\* loggers the application logs on
LoggerNames == {V_ws, V_app}

\* a call of get_logger(name).<level>(...)
Emit ==
  /\ pc = "running"
  /\ nrecords < MaxRecords
  /\ \E name \in LoggerNames, level \in {S_DEBUG, S_ERROR} :
       LET io1 == Log(IO(console, files, dirs), logcfg, name, S_NOTSET, level, "message", today)
       IN /\ console' = io1.console
          /\ files' = io1.files
          /\ lastRecord' = [name |-> name, level |-> level]
  /\ nrecords' = nrecords + 1
  /\ UNCHANGED <<configFile, inherited, host, env, pc, loaded, exc, setupLevel, colorCheck, logcfg, dirs, today, runs>>

\* the process ends and the application is started again, the same day or
\* the next one; the files stay
Restart ==
  /\ pc \in {"running", "load_raised", "import_raised"}
  /\ runs < MaxRuns
  /\ \E d \in {today, today + 1} :
       /\ d <= MaxDay
       /\ today' = d
  /\ runs' = runs + 1
  /\ env' = inherited
  /\ pc' = "start"
  /\ loaded' = FALSE
  /\ exc' = "none"
  /\ setupLevel' = S_NOTSET
  /\ colorCheck' = "not_run"
  /\ logcfg' = NoLogging
  /\ console' = <<>>
  /\ lastRecord' = NoRecord
  /\ UNCHANGED <<configFile, inherited, host, files, dirs, nrecords>>

\* ---------------------------------------------------------- specifications

\* one start of the process, over every configuration document
Init == InitWith(ConfigFiles, Inherited, Hosts)

Next == SteupTempLogger \/ GetPaths \/ LoadConfig \/ SetupFinish \/ LoggerConfig

Spec == Init /\ [][Next]_vars

\* the process started repeatedly, logging in between
InitLog == InitWith(LogConfigFiles, {NoEnv}, LogHosts)

NextLog == Next \/ Emit \/ Restart

SpecLog == InitLog /\ [][NextLog]_vars

\* -------------------------------------------------------------- properties

IsPrefix(a, b) == Len(a) <= Len(b) /\ SubSeq(b, 1, Len(a)) = a

\* the number of records of logger `name` among lines
RecordsOf(lines, name) ==
  Cardinality({i \in DOMAIN lines : lines[i].kind = "rec" /\ lines[i].name = name})

HasLine(lines, name, level, msg) ==
  \E i \in DOMAIN lines :
    lines[i].kind = "rec" /\ lines[i].name = name /\ lines[i].level = level /\ lines[i].msg = msg

\* the derived key of a path: components joined with "_"
JoinKey(path, c) == IF path = <<>> THEN c ELSE path \o <<"_">> \o c

RECURSIVE DerivedLeaves(_, _)
\* the scalar leaves of a tree as <<derived key, stringified value>>: mapping
\* keys upper-cased, sequence positions as decimal indices
DerivedLeaves(data, path) ==
  IF data.kind = "scalar" THEN {<<path, str(data.sc)>>}
  ELSE UNION {DerivedLeaves(data.items[i].val,
                            JoinKey(path, IF data.kind = "dict" THEN upper(data.items[i].key.s)
                                                                ELSE IntToStr(i - 1))) :
                i \in DOMAIN data.items}

\* load_config has returned (no exception) on a config file that parsed
Flattened == pc = "finish" /\ configFile.exists /\ configFile.valid

\* C1: after set_env_vars(tree) has returned, every scalar leaf of the tree is
\* found in the environment under its derived key, with its stringified value.
C1_EveryLeafFound ==
  Flattened =>
    \A kv \in DerivedLeaves(configFile.data, <<>>) :
      kv[1] \in DOMAIN env /\ env[kv[1]] = kv[2]

\* C2: load_config on a missing config file returns False (it does not raise)
\* and leaves FIRST_RUN = "True", whatever the environment held before.
C2_MissingIsFirstRun ==
  (~configFile.exists /\ pc \in {"finish", "load_raised"}) =>
    /\ pc = "finish"
    /\ loaded = FALSE
    /\ EnvGet(env, S_FIRST_RUN) = S_True

C2_Witness ==
  /\ pc = "finish"
  /\ ~configFile.exists
  /\ EnvGet(inherited, S_FIRST_RUN) = S_False

\* C3: load_config on a file that exists and does not parse returns False,
\* leaves FIRST_RUN different from "True" and writes no other variable.
C3_ParseErrorFails ==
  [][(pc = "load" /\ configFile.exists /\ ~configFile.valid) =>
       /\ pc' = "finish"
       /\ loaded' = FALSE
       /\ EnvGet(env', S_FIRST_RUN) # S_True
       /\ DOMAIN env' = (DOMAIN env) \cup {S_FIRST_RUN}
       /\ \A k \in (DOMAIN env) \ {S_FIRST_RUN} : env'[k] = env[k]]_vars

C3_Witness ==
  /\ pc = "finish"
  /\ configFile = Invalid
  /\ EnvGet(inherited, S_FIRST_RUN) = S_True
  /\ loaded = FALSE

\* C4: load_config on an existing config file always returns: it never ends in
\* an uncaught exception, whatever the document holds.
C4_LoadNeverRaises == pc # "load_raised"

\* C5: when LOGGING_LEVEL is non-empty after the flattening, load_config has
\* set the logger to that level and returned True if it is a level name, and
\* has logged an error and returned False if it is not.
C5_LevelOverride ==
  (Flattened /\ EnvGet(env, S_LOGGING_LEVEL) # <<>>) =>
    IF EnvGet(env, S_LOGGING_LEVEL) \in LevelNames
    THEN loaded = TRUE /\ setupLevel = EnvGet(env, S_LOGGING_LEVEL)
    ELSE /\ loaded = FALSE
         /\ setupLevel = S_NOTSET
         /\ HasLine(console, S_SETUP, S_ERROR, "Invalid logging level")

C5_Witness ==
  /\ Flattened
  /\ EnvGet(env, S_LOGGING_LEVEL) = V_loud
  /\ loaded = FALSE
  /\ HasLine(console, S_SETUP, S_ERROR, "Invalid logging level")

\* the exclusion list: the values of LOGGING_FILTER_0, LOGGING_FILTER_1, ...
\* as far as they are set without a gap
Excluded(name) == InSeq(name, _get_list_from_env(env, S_LOGGING_FILTER))

\* C6: once logging is configured, a record of a logger whose name is in the
\* exclusion list adds no line to the console nor to any log file, at any level.
C6_ExcludedIsSilent ==
  [][\A name \in LoggerNames :
       (logcfg.phase = "app" /\ Excluded(name)) =>
         /\ RecordsOf(console', name) <= RecordsOf(console, name)
         /\ \A p \in DOMAIN files' :
              p \in DOMAIN files /\ RecordsOf(files'[p], name) <= RecordsOf(files[p], name)]_vars

C6_Witness ==
  /\ logcfg.phase = "app"
  /\ lastRecord = [name |-> V_ws, level |-> S_ERROR]
  /\ Excluded(V_ws)
  /\ ~Excluded(V_app)
  /\ RecordsOf(console, V_app) > 0
  /\ RecordsOf(console, V_ws) = 0

\* C7: no step truncates a log file; the logging setup appends the two
\* separator lines to today's file when it exists already, and a completed
\* setup leaves a file named after today's date, which the file handler
\* writes to.
C7_AppendOnly ==
  [][/\ \A p \in DOMAIN files : p \in DOMAIN files' /\ IsPrefix(files[p], files'[p])
     /\ pc = "logcfg" =>
          LET p == PathJoin(LOG_DIRECTORY(env), IntToStr(today) \o S_dotlog)
          IN /\ (p \in DOMAIN files =>
                   files'[p] = files[p] \o <<SepLine("timestamp", today), SepLine("APPLICATION", today)>>)
             /\ (pc' = "running" =>
                   /\ p \in DOMAIN files'
                   /\ logcfg'.path = p
                   /\ (p \notin DOMAIN files => files'[p] = <<>>))]_vars

\* the second start of a day found the first start's records and appended to them
C7_Witness ==
  /\ pc = "running"
  /\ runs = 2
  /\ today = 1
  /\ \E i, j \in DOMAIN files[logcfg.path] :
       /\ i < j
       /\ files[logcfg.path][i].kind = "rec"
       /\ files[logcfg.path][i].name = V_app
       /\ files[logcfg.path][j] = SepLine("APPLICATION", today)

\* C8: the console handler formats with the colour formatter exactly when the
\* terminal-capability check of setup() recorded colour support; the file
\* handler always formats plainly.
C8_ColourOnlyAfterCheck ==
  pc = "running" =>
    /\ (logcfg.console = "ColoredFormatter") <=> (colorCheck \in {"vt", "colorama"})
    /\ logcfg.file = "Formatter"

\* C9: after load_config has returned, FIRST_RUN is "True" exactly when no
\* configuration file existed.
C9_FirstRunIffMissing ==
  pc = "finish" => ((EnvGet(env, S_FIRST_RUN) = S_True) <=> ~configFile.exists)

\* C10: setup() ends with SETUP_SUCCESS = "False" and no terminal-capability
\* check exactly when the file exists and load_config returned False; otherwise
\* it ran the check and ends with SETUP_SUCCESS = "True".
C10_SetupOutcome ==
  pc = "logcfg" =>
    IF configFile.exists /\ ~loaded
    THEN EnvGet(env, S_SETUP_SUCCESS) = S_False /\ colorCheck = "not_run"
    ELSE EnvGet(env, S_SETUP_SUCCESS) = S_True /\ colorCheck # "not_run"
====
